---- MODULE Spec2Model ----
(***************************************************************************)
(* Role self-assignment core of bot/base.py: the Roles commands (addRole,  *)
(* removeRole and the read-only queries) and the interactive menu          *)
(* (RoleView, RolesButton, BackButton, RoleMenu).                          *)
(*                                                                         *)
(* Role names are strings in the program.  Here a name is an integer code: *)
(* code k (1 <= k < 1000) stands for a name that starts with an upper-case *)
(* letter, k + 1000 for the same name written in lower case, and the three *)
(* menu entries have codes of their own.  Integer order on the codes is    *)
(* the order Python's sorted() gives the strings they stand for (upper     *)
(* case sorts before lower case).                                          *)
(*                                                                         *)
(* A remote call (create_role, add_roles, remove_roles, role.delete,       *)
(* message.edit, response.defer) that the platform carries out shows in    *)
(* the guild as the bot sees it at once.  A call on a missing role         *)
(* (getRoleByName returned None) and a second defer of one interaction     *)
(* raise, which ends the handler where it stands.  A role object is        *)
(* identified by its place in guild.roles.                                 *)
(*                                                                         *)
(* Spec and SpecMenu run each handler to completion in one step: a handler *)
(* is an operator from the record w = [guild, view, log, fault, result]    *)
(* before it to the one after it, where log lists the remote calls it      *)
(* made, in order, and result is the text it returned.  SpecAsync runs two *)
(* addRole / removeRole coroutines that interleave at their awaits and     *)
(* whose remote calls may fail.  SpecQueries asks the read-only queries in *)
(* a guild with any roles.                                                 *)
(***************************************************************************)
EXTENDS Integers, Sequences, FiniteSets, TLC

\* ---- bounds of the model ------------------------------------------------
MaxPages == 1        \* whitelists of up to PageSize * MaxPages + 1 entries
MaxArg == 2          \* role names 1..MaxArg (both spellings) are typed / picked
MaxGuildRoles == 2   \* the guild holds at most this many roles at a time
MaxMax == 2          \* Roles.max / RoleView.max ranges over 1..MaxMax

\* ---- program constants --------------------------------------------------
PageSize == 23
NoOptionsAvailable == 901
NextPageValue == 902
PreviousPageValue == 903

Users == {"alice", "bob"}
\* view.message.author: the user who opened the menu
MenuAuthor == "alice"

Actions == {"Add", "Remove", "List", "Your Roles", "Leaderboard", "Info"}

VARIABLES
    whitelist,   \* Roles.whitelist = RoleView.whitelist (configuration)
    max,         \* Roles.max = RoleView.max (configuration)
    guild,       \* message.guild.roles: sequence of [name, members]
    view,        \* the RoleView: [items, action, menu]
    ops,         \* the addRole / removeRole coroutines in flight, one per interaction
    out          \* the last read-only query: [query, author, answer, lines]

vars == <<whitelist, max, guild, view, ops, out>>

\* ---- strings and lists --------------------------------------------------
\* str.lower()
Lower(n) == IF n < 1000 THEN n + 1000 ELSE n

Range(s) == {s[i] : i \in 1..Len(s)}

\* sorted(list): ascending, equal elements in their original order
RECURSIVE sorted(_)
sorted(s) ==
    IF Len(s) <= 1 THEN s
    ELSE LET pivot == s[(Len(s) + 1) \div 2]
         IN sorted(SelectSeq(s, LAMBDA e : e < pivot))
            \o SelectSeq(s, LAMBDA e : e = pivot)
            \o sorted(SelectSeq(s, LAMBDA e : e > pivot))

\* [f(x) for x in s]
Map(s, F(_)) == [i \in 1..Len(s) |-> F(s[i])]

\* getRoleByName returns None when no guild role has the name
None == 0

\* ---- Roles / RoleView queries --------------------------------------------
\* Roles.getRoleByName, RoleView.getRoleByName: the first guild role whose
\* name is role_name exactly, as its place in guild.roles
getRoleByName(g, role_name) ==
    IF \E i \in 1..Len(g) : g[i].name = role_name
    THEN CHOOSE i \in 1..Len(g) :
             /\ g[i].name = role_name
             /\ \A j \in 1..(i - 1) : g[j].name # role_name
    ELSE None

\* message.author.roles
AuthorRoles(g, author) == SelectSeq(g, LAMBDA r : author \in r.members)

RoleName(r) == r.name

getAuthorRolesNames(g, author) == Map(AuthorRoles(g, author), RoleName)

getGuildRolesNames(g) == Map(g, RoleName)

isWhitelisted(argument) == Lower(argument) \in Range(Map(whitelist, Lower))

authorHasRole(g, author, argument) ==
    Lower(argument) \in Range(Map(getAuthorRolesNames(g, author), Lower))

guildHasRole(g, argument) ==
    Lower(argument) \in Range(Map(getGuildRolesNames(g), Lower))

\* [x for x in getAuthorRolesNames(message) if x in whitelist]
AuthorWhitelisted(g, author) ==
    SelectSeq(getAuthorRolesNames(g, author), LAMBDA x : x \in Range(whitelist))

\* hasMaxRoles comparing with > where the code has >=
hasMaxRolesOffByOne(g, author) == Len(AuthorWhitelisted(g, author)) > max

hasMaxRoles(g, author) == Len(AuthorWhitelisted(g, author)) >= max

\* whitelist[list(map(lower, whitelist)).index(argument.lower())]
CanonicalName(argument) ==
    LET first == CHOOSE i \in 1..Len(whitelist) :
                     /\ Lower(whitelist[i]) = Lower(argument)
                     /\ \A j \in 1..(i - 1) : Lower(whitelist[j]) # Lower(argument)
    IN whitelist[first]

\* [x for x in message.author.roles if x.name.lower() in map(lower, whitelist)]
AuthorRolesIgnoringCase(g, author) ==
    SelectSeq(AuthorRoles(g, author),
              LAMBDA r : Lower(r.name) \in Range(Map(whitelist, Lower)))

\* ---- remote calls --------------------------------------------------------
\* Once fault is set (an exception left the handler) the remaining calls of
\* the handler do nothing.

\* one remote call: its name and, for message.edit, the embed it passes
Call(name, embed) == [call |-> name, embed |-> embed]

InsertAt(s, pos, x) == SubSeq(s, 1, pos - 1) \o <<x>> \o SubSeq(s, pos, Len(s))

RemoveAt(s, pos) == SubSeq(s, 1, pos - 1) \o SubSeq(s, pos + 1, Len(s))

\* message.guild.create_role(name=..., colour=...); pos is the place the
\* platform gives the new role in guild.roles
create_role(w, name, pos) ==
    IF w.fault THEN w
    ELSE [w EXCEPT !.guild = InsertAt(@, pos, [name |-> name, members |-> {}]),
                   !.log = Append(@, Call("create_role", "none"))]

\* message.author.add_roles(role)
add_roles(w, author, role) ==
    IF w.fault THEN w
    ELSE IF role = None THEN [w EXCEPT !.fault = TRUE]
    ELSE [w EXCEPT !.guild[role].members = @ \cup {author},
                   !.log = Append(@, Call("add_roles", "none"))]

\* message.author.remove_roles(role)
remove_roles(w, author, role) ==
    IF w.fault THEN w
    ELSE IF role = None THEN [w EXCEPT !.fault = TRUE]
    ELSE [w EXCEPT !.guild[role].members = @ \ {author},
                   !.log = Append(@, Call("remove_roles", "none"))]

\* role.delete()
delete(w, role) ==
    IF w.fault THEN w
    ELSE [w EXCEPT !.guild = RemoveAt(@, role),
                   !.log = Append(@, Call("delete", "none"))]

\* if len(role.members) == 0: await role.delete()
DeleteIfEmpty(w, role) ==
    IF w.fault THEN w
    ELSE IF w.guild[role].members = {} THEN delete(w, role) ELSE w

\* interaction.message.edit(embed=..., view=self.view); the embed is "view"
\* when the call passes the view alone
edit(w, embed) ==
    IF w.fault THEN w
    ELSE [w EXCEPT !.log = Append(@, Call("edit", embed))]

\* interaction.response.defer(): an interaction is acknowledged once
defer(w) ==
    IF w.fault THEN w
    ELSE IF Call("defer", "none") \in Range(w.log) THEN [w EXCEPT !.fault = TRUE]
    ELSE [w EXCEPT !.log = Append(@, Call("defer", "none"))]

\* return <message>
Return(w, message) == IF w.fault THEN w ELSE [w EXCEPT !.result = message]

\* ---- Roles ----------------------------------------------------------------
\* addRole assigning the role again when the author already holds it
AddRoleReassigns(w, author, argument, pos) ==
    IF ~isWhitelisted(argument) THEN Return(w, "NotWhitelisted")
    ELSE IF hasMaxRoles(w.guild, author) THEN Return(w, "MaxRolesReached")
    ELSE IF authorHasRole(w.guild, author, argument)
    THEN Return(add_roles(w, author, getRoleByName(w.guild, CanonicalName(argument))),
                "AlreadyHasRole")
    ELSE IF guildHasRole(w.guild, argument)
    THEN Return(add_roles(w, author, getRoleByName(w.guild, CanonicalName(argument))),
                "Added")
    ELSE LET arg == CanonicalName(argument)
             w1 == create_role(w, arg, pos)
         IN Return(add_roles(w1, author, getRoleByName(w1.guild, arg)), "Added")

Roles_addRole(w, author, argument, pos) ==
    IF ~isWhitelisted(argument) THEN Return(w, "NotWhitelisted")
    ELSE IF hasMaxRoles(w.guild, author) THEN Return(w, "MaxRolesReached")
    ELSE IF authorHasRole(w.guild, author, argument) THEN Return(w, "AlreadyHasRole")
    ELSE IF guildHasRole(w.guild, argument)
    THEN LET arg == CanonicalName(argument)
             w1 == add_roles(w, author, getRoleByName(w.guild, arg))
         IN Return(w1, "Added")
    ELSE IF ~guildHasRole(w.guild, argument)
    THEN LET arg == CanonicalName(argument)
             w1 == create_role(w, arg, pos)
             w2 == add_roles(w1, author, getRoleByName(w1.guild, arg))
         IN Return(w2, "Added")
    ELSE Return(w, "CannotAdd")

\* removeRole looking the role up by the name as typed, not as whitelisted
RemoveRoleByTypedName(w, author, argument) ==
    IF ~isWhitelisted(argument) THEN Return(w, "NotWhitelisted")
    ELSE IF ~authorHasRole(w.guild, author, argument) THEN Return(w, "DoesNotHaveRole")
    ELSE LET role == getRoleByName(w.guild, argument)
             w1 == remove_roles(w, author, role)
             w2 == DeleteIfEmpty(w1, role)
         IN Return(w2, "Removed")

Roles_removeRole(w, author, argument) ==
    IF ~isWhitelisted(argument) THEN Return(w, "NotWhitelisted")
    ELSE IF ~authorHasRole(w.guild, author, argument) THEN Return(w, "DoesNotHaveRole")
    ELSE LET arg == CanonicalName(argument)
             role == getRoleByName(w.guild, arg)
             w1 == remove_roles(w, author, role)
             w2 == DeleteIfEmpty(w1, role)
         IN Return(w2, "Removed")

\* ---- RoleMenu -------------------------------------------------------------
\* one discord.SelectOption: its value, and the number its label starts with
\* (0 for the entries that are not roles)
Option(value, num) == [value |-> value, num |-> num]

\* RoleMenu.regenerateMenu: the option list for a sorted whitelist and an index
MenuOptions(wl, index) ==
    LET window == index..(index + PageSize - 1)      \* range(index, index + 23)
        found == {i \in window : i < Len(wl)}         \* no IndexError
        end == \E i \in window : i >= Len(wl)         \* IndexError seen
        placeholder == IF Len(wl) = 0
                       THEN <<Option(NoOptionsAvailable, 0)>> ELSE <<>>
        previous == IF index > 0 THEN <<Option(PreviousPageValue, 0)>> ELSE <<>>
        entries == [j \in 1..Cardinality(found) |-> Option(wl[index + j], index + j)]
        next == IF end = FALSE THEN <<Option(NextPageValue, 0)>> ELSE <<>>
    IN placeholder \o previous \o entries \o next

regenerateMenu(menu) == [menu EXCEPT !.options = MenuOptions(menu.whitelist, menu.index)]

\* RoleMenu.__init__ keeping the whitelist in the order it was given
RoleMenuUnsorted(wl) ==
    regenerateMenu([whitelist |-> wl, index |-> 0, page |-> 1, options |-> <<>>])

\* RoleMenu.__init__
RoleMenu(wl) ==
    regenerateMenu([whitelist |-> sorted(wl), index |-> 0, page |-> 1, options |-> <<>>])

NextPage(menu) ==
    regenerateMenu([menu EXCEPT !.index = @ + PageSize, !.page = @ + 1])

\* PreviousPage moving the index back and leaving the page number
PreviousPageKeepsPage(menu) ==
    regenerateMenu([menu EXCEPT !.index = @ - PageSize])

PreviousPage(menu) ==
    regenerateMenu([menu EXCEPT !.index = @ - PageSize, !.page = @ - 1])

\* the view holds no RoleMenu
NoMenu == [whitelist |-> <<>>, index |-> 0, page |-> 0, options |-> <<>>]

\* ---- RoleView -------------------------------------------------------------
\* view.children after RoleView.regenerateMenu: the six action buttons
MainMenuItems == <<"Add", "Remove", "List", "Your Roles", "Leaderboard", "Info">>

\* view.children after RolesButton.callback: the selector and the Back button
ActionMenuItems == <<"RoleMenu", "Back">>

\* RoleView.regenerateMenu: clear_items(), then the six action buttons
View_regenerateMenu(w) ==
    IF w.fault THEN w
    ELSE [w EXCEPT !.view.items = MainMenuItems, !.view.menu = NoMenu]

\* RoleView.__init__
NewView == [items |-> MainMenuItems, action |-> "None", menu |-> NoMenu]

\* a step of the handler on the RoleMenu object itself
OnMenu(w, F(_)) == IF w.fault THEN w ELSE [w EXCEPT !.view.menu = F(@)]

\* ---- the callbacks ---------------------------------------------------------
\* RoleMenu.callback, action = "Remove", after the two page tests
RemoveSelected(w, selection) ==
    IF selection = NoOptionsAvailable
    THEN defer(edit(View_regenerateMenu(w), "default"))
    ELSE LET role == getRoleByName(w.guild, selection)
             w1 == remove_roles(w, MenuAuthor, role)
             w2 == DeleteIfEmpty(w1, role)
         IN defer(edit(View_regenerateMenu(w2), "Removed"))

\* RoleMenu.callback, action = "Add", after the two page tests
AddSelected(w, selection, pos) ==
    LET roles == AuthorRolesIgnoringCase(w.guild, MenuAuthor)
        w1 == IF Len(roles) >= max
              THEN defer(edit(View_regenerateMenu(w), "MaxRolesReached"))
              ELSE w
        w2 == IF Lower(selection) \notin Range(Map(roles, RoleName))
              THEN create_role(w1, selection, pos)
              ELSE w1
        w3 == add_roles(w2, MenuAuthor, getRoleByName(w2.guild, selection))
    IN defer(edit(View_regenerateMenu(w3), "Added"))

RoleMenu_callback(w, user, selection, pos) ==
    IF MenuAuthor # user THEN w
    ELSE LET action == w.view.action
             w1 == IF selection = NextPageValue
                   THEN defer(edit(OnMenu(w, NextPage), "view"))
                   ELSE w
         IN IF selection = PreviousPageValue
            THEN defer(edit(OnMenu(w1, PreviousPage), "view"))
            ELSE IF action = "Remove" THEN RemoveSelected(w1, selection)
            ELSE IF action = "Add" THEN AddSelected(w1, selection, pos)
            ELSE w1

\* BackButton.callback showing the default embed over the view as it stands
BackButtonKeepsItems(w, user) ==
    IF MenuAuthor # user THEN w
    ELSE defer(edit(w, "default"))

\* BackButton.callback without the test of the interaction's user
BackButtonForAnyone(w, user) == defer(edit(View_regenerateMenu(w), "default"))

BackButton_callback(w, user) ==
    IF MenuAuthor # user THEN w
    ELSE defer(edit(View_regenerateMenu(w), "default"))

\* RolesButton.callback giving the selector the whole whitelist under every action
RolesButtonWholeWhitelist(w, user, action) ==
    IF MenuAuthor # user THEN w
    ELSE LET w1 == [w EXCEPT !.view.action = action,
                             !.view.items = ActionMenuItems,
                             !.view.menu = RoleMenu(whitelist)]
         IN defer(edit(w1, "select"))

RolesButton_callback(w, user, action) ==
    IF MenuAuthor # user THEN w
    ELSE LET wl == IF action = "Remove"
                   THEN Map(AuthorRolesIgnoringCase(w.guild, MenuAuthor), RoleName)
                   ELSE whitelist
             w1 == [w EXCEPT !.view.action = action,
                             !.view.items = ActionMenuItems,
                             !.view.menu = RoleMenu(wl)]
         IN defer(edit(w1, "select"))

\* ---- the state machine ----------------------------------------------------
\* a whitelist entry as configured: odd names capitalised, even ones lower case
Name(k) == IF k % 2 = 1 THEN k ELSE k + 1000

\* a configured whitelist of n names, in no particular order
MakeWhitelist(n) == [i \in 1..n |-> Name(n + 1 - i)]

\* whitelists short enough for every entry to be typed or picked
ShortSizes == 0..MaxArg

\* whitelists that end on a page boundary or one entry after it
PagedSizes ==
    {0} \cup {PageSize * k : k \in 1..MaxPages} \cup {PageSize * k + 1 : k \in 1..MaxPages}

\* the arguments a user types to the add / remove commands
CmdArgs == (1..MaxArg) \cup {k + 1000 : k \in 1..MaxArg}

\* the selector values a user picks among those the menu offers
Selectable(v) ==
    \/ v \in {NoOptionsAvailable, NextPageValue, PreviousPageValue}
    \/ v \in CmdArgs

Offered == {view.menu.options[i].value : i \in 1..Len(view.menu.options)}

Start == [guild |-> guild, view |-> view, log |-> <<>>, fault |-> FALSE, result |-> "none"]

\* the handler ends: what it did to the guild and to the view stays
Commit(w) ==
    /\ Len(w.guild) <= MaxGuildRoles
    /\ guild' = w.guild
    /\ view' = w.view
    /\ UNCHANGED <<whitelist, max, ops, out>>

\* two interactions can be in flight at a time
Procs == {1, 2}

\* no coroutine runs for the interaction
Idle == [kind |-> "none", author |-> "none", name |-> 0, pc |-> "idle",
         role |-> None, created |-> FALSE, result |-> "none"]

\* no query has been asked
NoAnswer == [query |-> "none", author |-> "none", answer |-> "none", lines |-> <<>>]

\* the bot starts in a guild that has none of its roles yet; the menu has
\* just been opened by MenuAuthor
InitWith(sizes) ==
    /\ whitelist \in {MakeWhitelist(n) : n \in sizes}
    /\ max \in 1..MaxMax
    /\ guild = <<>>
    /\ view = NewView
    /\ ops = [p \in Procs |-> Idle]
    /\ out = NoAnswer

Init == InitWith(ShortSizes)

InitMenu == InitWith(ShortSizes \cup PagedSizes)

\* the places the platform may give a new role in guild.roles
Places == 1..(Len(guild) + 1)

\* the places that matter to Roles.addRole of argument: it creates a role only
\* when the guild has none of that name
PlacesFor(argument) == IF guildHasRole(guild, argument) THEN {1} ELSE Places

\* the places that matter to a pick in the menu: only action = Add creates a role
MenuPlaces == IF view.action = "Add" THEN Places ELSE {1}

AddRole ==
    \E author \in Users, argument \in CmdArgs : \E pos \in PlacesFor(argument) :
        Commit(Roles_addRole(Start, author, argument, pos))

RemoveRole ==
    \E author \in Users, argument \in CmdArgs :
        Commit(Roles_removeRole(Start, author, argument))

PressRolesButton ==
    \E user \in Users, action \in Actions :
        /\ view.items = MainMenuItems
        /\ Commit(RolesButton_callback(Start, user, action))

PressBackButton ==
    \E user \in Users :
        /\ view.items = ActionMenuItems
        /\ Commit(BackButton_callback(Start, user))

Select ==
    \E user \in Users, selection \in Offered, pos \in MenuPlaces :
        /\ view.items = ActionMenuItems
        /\ Selectable(selection)
        /\ Commit(RoleMenu_callback(Start, user, selection, pos))

Next == AddRole \/ RemoveRole \/ PressRolesButton \/ PressBackButton \/ Select

\* the typed commands and the menu, over short whitelists
Spec == Init /\ [][Next]_vars

\* the typed commands, each run to its end before the next starts
NextCommands == AddRole \/ RemoveRole

\* the menu alone, over short whitelists and whitelists of several pages
NextMenu == PressRolesButton \/ PressBackButton \/ Select

SpecMenu == InitMenu /\ [][NextMenu]_vars

\* ---- interactions that interleave -----------------------------------------
\* Roles.addRole and Roles.removeRole are coroutines: the code between two
\* awaits runs without interruption, an awaited remote call is in flight until
\* the platform carries it out or refuses it, and the coroutine resumes some
\* time after that.  ops[p] is the coroutine of interaction p: pc names the
\* call in flight ("create_role", "add_roles", "remove_roles", "delete"), the
\* call just carried out ("created", "assigned", "unassigned", "deleted"), or
\* how the coroutine ended ("done": it returned result, "failed": an
\* exception left it).

\* a role object whose guild role has been deleted
Gone == -1

\* the coroutine returns
Ended(op, result) == [op EXCEPT !.pc = "done", !.role = None, !.result = result]

\* an exception leaves the coroutine: nothing catches it
Raised(op) == [op EXCEPT !.pc = "failed", !.role = None]

\* the coroutine awaits a remote call
Calling(op, call, role) == [op EXCEPT !.pc = call, !.role = role]

\* add_roles(role), remove_roles(role): None has no id, the call raises at once
CallOnRole(op, call, role) == IF role = None THEN Raised(op) ELSE Calling(op, call, role)

\* len(role.members)
Members(g, role) == IF role = Gone THEN {} ELSE g[role].members

\* addRole starting without the test of hasMaxRoles
addRole_begin_unchecked(g, author, argument) ==
    LET op == [Idle EXCEPT !.kind = "add", !.author = author]
    IN IF ~isWhitelisted(argument) THEN Ended(op, "NotWhitelisted")
       ELSE IF authorHasRole(g, author, argument) THEN Ended(op, "AlreadyHasRole")
       ELSE LET arg == CanonicalName(argument)
            IN IF guildHasRole(g, argument)
               THEN CallOnRole([op EXCEPT !.name = arg], "add_roles", getRoleByName(g, arg))
               ELSE Calling([op EXCEPT !.name = arg], "create_role", None)

\* Roles.addRole from its start to its first await or return
addRole_begin(g, author, argument) ==
    LET op == [Idle EXCEPT !.kind = "add", !.author = author]
    IN IF ~isWhitelisted(argument) THEN Ended(op, "NotWhitelisted")
       ELSE IF hasMaxRoles(g, author) THEN Ended(op, "MaxRolesReached")
       ELSE IF authorHasRole(g, author, argument) THEN Ended(op, "AlreadyHasRole")
       ELSE LET arg == CanonicalName(argument)
            IN IF guildHasRole(g, argument)
               THEN CallOnRole([op EXCEPT !.name = arg], "add_roles", getRoleByName(g, arg))
               ELSE Calling([op EXCEPT !.name = arg], "create_role", None)

\* Roles.addRole from an await that came back to the next await or return
addRole_resume(g, op) ==
    IF op.pc = "created"
    THEN CallOnRole(op, "add_roles", getRoleByName(g, op.name))
    ELSE Ended(op, "Added")

\* Roles.removeRole from its start to its first await or return
removeRole_begin(g, author, argument) ==
    LET op == [Idle EXCEPT !.kind = "remove", !.author = author]
    IN IF ~isWhitelisted(argument) THEN Ended(op, "NotWhitelisted")
       ELSE IF ~authorHasRole(g, author, argument) THEN Ended(op, "DoesNotHaveRole")
       ELSE LET arg == CanonicalName(argument)
            IN CallOnRole([op EXCEPT !.name = arg], "remove_roles", getRoleByName(g, arg))

\* Roles.removeRole from an await that came back to the next await or return
removeRole_resume(g, op) ==
    IF op.pc = "unassigned"
    THEN IF Members(g, op.role) = {} THEN Calling(op, "delete", op.role)
         ELSE Ended(op, "Removed")
    ELSE Ended(op, "Removed")

\* the role object a coroutine holds, after the platform listed a new role at pos
AfterInsert(role, pos) ==
    IF role \in {None, Gone} THEN role ELSE IF role >= pos THEN role + 1 ELSE role

\* the role object a coroutine holds, after the role at place was deleted
AfterDelete(role, place) ==
    IF role \in {None, Gone} THEN role
    ELSE IF role = place THEN Gone
    ELSE IF role > place THEN role - 1 ELSE role

\* a failed call undoing the create_role before it
RollBackCreated(g, op) ==
    IF op.pc = "add_roles" /\ op.created /\ op.role # Gone THEN RemoveAt(g, op.role) ELSE g

\* the guild after a remote call of op failed: the exception propagates,
\* nothing is retried and nothing is undone
AfterFailedCall(g, op) == g

InFlight == {"create_role", "add_roles", "remove_roles", "delete"}

CameBack == {"created", "assigned", "unassigned", "deleted"}

Quiet == \A p \in Procs : ops[p].pc = "idle"

\* interaction p arrives; interactions are numbered in their order of arrival
Arrives(p) == ops[p].pc = "idle" /\ \A q \in Procs : q < p => ops[q].pc # "idle"

BeginAdd ==
    \E p \in Procs, author \in Users, argument \in CmdArgs :
        /\ Arrives(p)
        /\ ops' = [ops EXCEPT ![p] = addRole_begin(guild, author, argument)]
        /\ UNCHANGED <<whitelist, max, guild, view, out>>

BeginRemove ==
    \E p \in Procs, author \in Users, argument \in CmdArgs :
        /\ Arrives(p)
        /\ ops' = [ops EXCEPT ![p] = removeRole_begin(guild, author, argument)]
        /\ UNCHANGED <<whitelist, max, guild, view, out>>

\* the platform carries out the create_role in flight
PlatformCreates ==
    \E p \in Procs, pos \in Places :
        /\ ops[p].pc = "create_role"
        /\ Len(guild) < MaxGuildRoles
        /\ guild' = create_role(Start, ops[p].name, pos).guild
        /\ ops' = [q \in Procs |->
                      IF q = p THEN [ops[p] EXCEPT !.pc = "created", !.created = TRUE]
                      ELSE [ops[q] EXCEPT !.role = AfterInsert(@, pos)]]
        /\ UNCHANGED <<whitelist, max, view, out>>

\* the platform carries out the add_roles or remove_roles in flight
PlatformAssigns ==
    \E p \in Procs :
        /\ ops[p].pc \in {"add_roles", "remove_roles"}
        /\ ops[p].role # Gone
        /\ guild' = IF ops[p].pc = "add_roles"
                     THEN add_roles(Start, ops[p].author, ops[p].role).guild
                     ELSE remove_roles(Start, ops[p].author, ops[p].role).guild
        /\ ops' = [ops EXCEPT ![p].pc = IF @ = "add_roles" THEN "assigned" ELSE "unassigned"]
        /\ UNCHANGED <<whitelist, max, view, out>>

\* the platform carries out the role.delete in flight
PlatformDeletes ==
    \E p \in Procs :
        /\ ops[p].pc = "delete"
        /\ ops[p].role # Gone
        /\ guild' = delete(Start, ops[p].role).guild
        /\ ops' = [q \in Procs |->
                      IF q = p THEN [ops[p] EXCEPT !.pc = "deleted", !.role = Gone]
                      ELSE [ops[q] EXCEPT !.role = AfterDelete(@, ops[p].role)]]
        /\ UNCHANGED <<whitelist, max, view, out>>

\* the platform refuses the call in flight (no permission, rate limit, the
\* role no longer exists) or the network loses it
PlatformFails ==
    \E p \in Procs :
        /\ ops[p].pc \in InFlight
        /\ guild' = AfterFailedCall(guild, ops[p])
        /\ ops' = [ops EXCEPT ![p] = Raised(@)]
        /\ UNCHANGED <<whitelist, max, view, out>>

\* the coroutine whose call came back runs to its next await or to its end
Resume ==
    \E p \in Procs :
        /\ ops[p].pc \in CameBack
        /\ ops' = [ops EXCEPT ![p] = IF @.kind = "add" THEN addRole_resume(guild, @)
                                      ELSE removeRole_resume(guild, @)]
        /\ UNCHANGED <<whitelist, max, guild, view, out>>

\* a command that runs to its end while no other is in flight
RunAlone == Quiet /\ NextCommands

NextAsync ==
    \/ RunAlone
    \/ BeginAdd
    \/ BeginRemove
    \/ PlatformCreates
    \/ PlatformAssigns
    \/ PlatformDeletes
    \/ PlatformFails
    \/ Resume

\* two commands that interleave at their awaits, after any number that did not
SpecAsync == Init /\ [][NextAsync]_vars

\* ---- the read-only queries ---------------------------------------------------
\* sorted(leaderboard, key=lambda d: d["count"], reverse=True): by count,
\* largest first, entries of equal count in their original order
RECURSIVE sortedByCount(_)
sortedByCount(s) ==
    IF Len(s) <= 1 THEN s
    ELSE LET pivot == s[(Len(s) + 1) \div 2].count
         IN sortedByCount(SelectSeq(s, LAMBDA e : e.count > pivot))
            \o SelectSeq(s, LAMBDA e : e.count = pivot)
            \o sortedByCount(SelectSeq(s, LAMBDA e : e.count < pivot))

\* Roles.getLeaderboard: the lines of the text it returns, in order, or the
\* "Nobody has any ... roles yet" message
getLeaderboard(g) ==
    LET MembersByName(role) == g[getRoleByName(g, role)].members
        names == SelectSeq(getGuildRolesNames(g), LAMBDA role :
                     role \in Range(whitelist) /\ Cardinality(MembersByName(role)) > 0)
        leaderboard == [i \in 1..Len(names) |->
                           [role |-> names[i], count |-> Cardinality(MembersByName(names[i]))]]
    IN IF leaderboard = <<>>
       THEN [query |-> "getLeaderboard", author |-> "none",
             answer |-> "NobodyHasRoles", lines |-> <<>>]
       ELSE [query |-> "getLeaderboard", author |-> "none",
             answer |-> "Leaderboard", lines |-> sortedByCount(leaderboard)]

\* a guild role as the platform may hold it: the bot's own roles and roles
\* made by the guild's administrators, under either spelling of a name
GuildRoles == [name : CmdArgs, members : SUBSET Users]

GuildLists == UNION {[1..n -> GuildRoles] : n \in 0..MaxGuildRoles}

\* the queries are asked in a guild with any roles
InitQueries ==
    /\ whitelist \in {MakeWhitelist(n) : n \in ShortSizes}
    /\ max \in 1..MaxMax
    /\ guild \in GuildLists
    /\ view = NewView
    /\ ops = [p \in Procs |-> Idle]
    /\ out = NoAnswer

AskHasMaxRoles ==
    \E author \in Users :
        /\ out' = [query |-> "hasMaxRoles", author |-> author,
                   answer |-> IF hasMaxRoles(guild, author) THEN "True" ELSE "False",
                   lines |-> <<>>]
        /\ UNCHANGED <<whitelist, max, guild, view, ops>>

AskLeaderboard ==
    /\ out' = getLeaderboard(guild)
    /\ UNCHANGED <<whitelist, max, guild, view, ops>>

NextQueries == AskHasMaxRoles \/ AskLeaderboard

SpecQueries == InitQueries /\ [][NextQueries]_vars

\* ---- vocabulary of the properties ------------------------------------------
\* author holds a guild role named name
Holds(g, author, name) == \E i \in 1..Len(g) : g[i].name = name /\ author \in g[i].members

\* the names of the roles author holds, as a set
HeldNames(g, author) == {g[i].name : i \in {j \in 1..Len(g) : author \in g[j].members}}

\* how many whitelisted roles author holds
HeldCount(g, author) == Len(AuthorWhitelisted(g, author))


\* the remote calls of a handler that touch roles
RoleCalls(w) == SelectSeq(w.log, LAMBDA c : c.call \in {"create_role", "delete", "add_roles", "remove_roles"})

Edits(w) == SelectSeq(w.log, LAMBDA c : c.call = "edit")

Acks(w) == SelectSeq(w.log, LAMBDA c : c.call = "defer")

\* s and t hold the same elements the same number of times
SameElements(s, t) ==
    /\ Len(s) = Len(t)
    /\ \A x \in Range(s) \cup Range(t) :
           Cardinality({i \in 1..Len(s) : s[i] = x}) = Cardinality({i \in 1..Len(t) : t[i] = x})

\* the role entries among the options the menu shows
ShownEntries == SelectSeq(view.menu.options, LAMBDA o : o.num > 0)

\* ceil(n / PageSize)
PagesOf(n) == (n + PageSize - 1) \div PageSize

MenuAddEnforcesMax ==
    /\ (view.items = ActionMenuItems /\ view.action = "Add"
            /\ Len(AuthorRolesIgnoringCase(guild, MenuAuthor)) >= max) =>
           \A selection \in Offered \cap Range(whitelist), pos \in Places :
               RoleMenu_callback(Start, MenuAuthor, selection, pos).guild = guild
    /\ Len(AuthorRolesIgnoringCase(guild, MenuAuthor)) <= max

\* ---- C3 -------------------------------------------------------------------
\* C3: the option list has a "Next Page" entry exactly when the whitelist has
\* entries beyond the window, that is when index + 23 < N.
NextPageIffMoreEntries ==
    view.items = ActionMenuItems =>
        (NextPageValue \in Offered
            <=> view.menu.index + PageSize < Len(view.menu.whitelist))

\* ---- C4 -------------------------------------------------------------------
\* C4: the menu's list is the whitelist sorted; page p shows the entries at
\* sorted positions 23(p-1)+1 .. 23p, in order, each labelled with its
\* position; hence at most 23 a page, every entry on one page only, the pages
\* that show entries are pages 1..ceil(N/23), and "Next Page" leads to each.
PagesCoverSortedWhitelist ==
    view.items = ActionMenuItems =>
        LET m == view.menu
            N == Len(m.whitelist)
            count == IF N - m.index > PageSize THEN PageSize
                     ELSE IF N - m.index < 0 THEN 0 ELSE N - m.index
        IN /\ \A i, j \in 1..N : i < j => m.whitelist[i] <= m.whitelist[j]
           /\ view.action # "Remove" => SameElements(m.whitelist, whitelist)
           /\ m.page >= 1
           /\ m.index = (m.page - 1) * PageSize
           /\ Len(ShownEntries) = count
           /\ \A j \in 1..count :
                  ShownEntries[j] = Option(m.whitelist[m.index + j], m.index + j)
           /\ (ShownEntries # <<>>) <=> (m.page <= PagesOf(N))
           /\ m.page < PagesOf(N) => NextPageValue \in Offered

\* the second page of a whitelist of 24 shows its last entry, numbered 24
SecondPageShown ==
    /\ view.items = ActionMenuItems
    /\ view.menu.page = 2
    /\ Len(ShownEntries) = 1
    /\ ShownEntries[1].num = PageSize + 1

\* ---- C5 -------------------------------------------------------------------
\* C5: index is a non-negative multiple of 23, page = index / 23 + 1, and
\* "Previous Page" is offered exactly when index > 0.
IndexPageInvariant ==
    view.items = ActionMenuItems =>
        /\ view.menu.index >= 0
        /\ view.menu.index % PageSize = 0
        /\ view.menu.page = (view.menu.index \div PageSize) + 1
        /\ PreviousPageValue \in Offered <=> view.menu.index > 0

\* the menu has been turned to a later page and offers the way back
PreviousPageOffered ==
    /\ view.items = ActionMenuItems
    /\ view.menu.index > 0
    /\ PreviousPageValue \in Offered

\* ---- C6 -------------------------------------------------------------------
\* C6: an interaction by anyone but the user who opened the menu changes
\* nothing: the view and the guild stay as they are and no remote call (edit,
\* defer, role call) is made.
OthersAreIgnored ==
    \A user \in Users \ {MenuAuthor} :
        /\ view.items = MainMenuItems =>
               \A action \in Actions : RolesButton_callback(Start, user, action) = Start
        /\ view.items = ActionMenuItems =>
               /\ BackButton_callback(Start, user) = Start
               /\ \A selection \in Offered, pos \in Places :
                      RoleMenu_callback(Start, user, selection, pos) = Start

\* another user faces an open Add menu whose entries would act for the invoker
OtherUserAtOpenMenu ==
    /\ view.items = ActionMenuItems
    /\ view.action = "Add"
    /\ Users \ {MenuAuthor} # {}
    /\ \E selection \in Offered :
           RoleMenu_callback(Start, MenuAuthor, selection, 1).guild # guild

\* ---- C7 -------------------------------------------------------------------
\* C7: "Next Page" / "Previous Page" picked by the invoker, under every
\* action, moves index by 23 and page by 1 and makes no role call; the guild
\* is unchanged.
PageTurnsLeaveRolesAlone ==
    view.items = ActionMenuItems =>
        \A selection \in Offered \cap {NextPageValue, PreviousPageValue}, pos \in Places :
            LET w == RoleMenu_callback(Start, MenuAuthor, selection, pos)
                step == IF selection = NextPageValue THEN 1 ELSE -1
            IN /\ RoleCalls(w) = <<>>
               /\ w.guild = guild
               /\ w.view.items = ActionMenuItems
               /\ w.view.menu.index = view.menu.index + step * PageSize
               /\ w.view.menu.page = view.menu.page + step

\* ---- C8 -------------------------------------------------------------------
\* C8: every interaction by the invoker makes exactly one message.edit and
\* exactly one defer, the defer after the edit.
EditThenAck(w) ==
    /\ Len(Edits(w)) = 1
    /\ Len(Acks(w)) = 1
    /\ \E i, j \in 1..Len(w.log) : i < j /\ w.log[i].call = "edit" /\ w.log[j].call = "defer"

OneEditThenOneAck ==
    /\ view.items = MainMenuItems =>
           \A action \in Actions : EditThenAck(RolesButton_callback(Start, MenuAuthor, action))
    /\ view.items = ActionMenuItems =>
           /\ EditThenAck(BackButton_callback(Start, MenuAuthor))
           /\ \A selection \in Offered, pos \in Places :
                  EditThenAck(RoleMenu_callback(Start, MenuAuthor, selection, pos))

\* ---- C9 -------------------------------------------------------------------
\* C9: a successful Roles.addRole followed at once by Roles.removeRole of the
\* same role by the same user succeeds and leaves the user holding the role
\* names held before the add.
\* (Tried in the states with the main menu showing, which hold every guild.)
AddThenRemoveRestores ==
    view.items = MainMenuItems =>
    \A author \in Users, argument \in CmdArgs : \A pos \in PlacesFor(argument) :
        LET added == Roles_addRole(Start, author, argument, pos)
            removed == Roles_removeRole([added EXCEPT !.log = <<>>, !.result = "none"],
                                        author, argument)
        IN (added.result = "Added" /\ ~added.fault) =>
               /\ Holds(added.guild, author, CanonicalName(argument))
               /\ removed.result = "Removed"
               /\ ~removed.fault
               /\ HeldNames(removed.guild, author) = HeldNames(guild, author)

\* a user can add a role the guild already has (another member holds it),
\* and a user can add a role the guild does not have
AddableExistingRole ==
    /\ view.items = MainMenuItems
    /\ \E author \in Users, argument \in CmdArgs :
           /\ Roles_addRole(Start, author, argument, 1).result = "Added"
           /\ guildHasRole(guild, argument)
    /\ \E author \in Users, argument \in CmdArgs :
           /\ Roles_addRole(Start, author, argument, 1).result = "Added"
           /\ ~guildHasRole(guild, argument)

\* ---- C10 ------------------------------------------------------------------
\* C10: a successful removal (Roles.removeRole, or a role picked under
\* action = Remove) takes the role from the user and deletes the guild role
\* exactly when no member is left in it; so every guild role on the whitelist
\* has a member.
RemovalKeepsRolesPopulated ==
    /\ \A i \in 1..Len(guild) :
           guild[i].name \in Range(whitelist) => guild[i].members # {}
    /\ \A author \in Users, argument \in CmdArgs :
           LET w == Roles_removeRole(Start, author, argument)
           IN w.result = "Removed" => ~Holds(w.guild, author, CanonicalName(argument))
    /\ (view.items = ActionMenuItems /\ view.action = "Remove") =>
           \A selection \in Offered \ {NoOptionsAvailable, NextPageValue, PreviousPageValue} :
               LET w == RoleMenu_callback(Start, MenuAuthor, selection, 1)
               IN ~w.fault => ~Holds(w.guild, MenuAuthor, selection)

\* ---- C11 ------------------------------------------------------------------
\* the business outcomes of the two commands
BusinessOutcomes == {"NotWhitelisted", "MaxRolesReached", "AlreadyHasRole", "DoesNotHaveRole"}

\* C11: when Roles.addRole or Roles.removeRole ends in NotWhitelisted,
\* MaxRolesReached, AlreadyHasRole or DoesNotHaveRole it returns the message
\* without a fault and makes no remote call: the guild's roles and every
\* member's roles are as before the call (for a command that starts while no
\* other is in flight; it then ends before any other starts).
BusinessOutcomesMutateNothing ==
    Quiet => \A author \in Users, argument \in CmdArgs :
        /\ \A pos \in PlacesFor(argument) :
               LET w == Roles_addRole(Start, author, argument, pos)
               IN /\ w.result \in BusinessOutcomes =>
                         (~w.fault /\ w.log = <<>> /\ w.guild = guild)
                  /\ ~isWhitelisted(argument) => w.result = "NotWhitelisted"
                  /\ (isWhitelisted(argument) /\ HeldCount(guild, author) < max
                          /\ Holds(guild, author, CanonicalName(argument))) =>
                         w.result = "AlreadyHasRole"
        /\ LET w == Roles_removeRole(Start, author, argument)
           IN /\ w.result \in BusinessOutcomes =>
                     (~w.fault /\ w.log = <<>> /\ w.guild = guild)
              /\ ~isWhitelisted(argument) => w.result = "NotWhitelisted"
              /\ (isWhitelisted(argument) /\ ~Holds(guild, author, CanonicalName(argument))) =>
                     w.result = "DoesNotHaveRole"

\* one user is at max, another holds a role and lacks another: the commands
\* end in MaxRolesReached, AlreadyHasRole and DoesNotHaveRole
BusinessOutcomesOccur ==
    /\ Quiet
    /\ \E author \in Users, argument \in CmdArgs :
           Roles_addRole(Start, author, argument, 1).result = "MaxRolesReached"
    /\ \E author \in Users, argument \in CmdArgs :
           Roles_addRole(Start, author, argument, 1).result = "AlreadyHasRole"
    /\ \E author \in Users, argument \in CmdArgs :
           Roles_removeRole(Start, author, argument).result = "DoesNotHaveRole"

\* ---- C12 ------------------------------------------------------------------
\* C12: the limit check and the assignment of an add are apart.  A user holds
\* more than max whitelisted roles only when two adds of that user
\* interleaved, each passed its check before the other's assignment took
\* effect, and both assigned; the user then holds max + 1.
AddsExceedMaxOnlyInterleaved ==
    \A user \in Users :
        /\ HeldCount(guild, user) <= max + 1
        /\ HeldCount(guild, user) > max =>
               \A p \in Procs :
                   /\ ops[p].kind = "add"
                   /\ ops[p].author = user
                   /\ ops[p].pc \in {"assigned", "done"}
                   /\ ops[p].pc = "done" => ops[p].result = "Added"

\* two adds of one user for two different roles both returned success and
\* the user, who held max - 1 whitelisted roles, holds max + 1
BothAddsSucceeded ==
    \E user \in Users :
        /\ HeldCount(guild, user) = max + 1
        /\ \A p \in Procs :
               ops[p].kind = "add" /\ ops[p].author = user
                   /\ ops[p].pc = "done" /\ ops[p].result = "Added"
        /\ ops[1].name # ops[2].name

\* ---- C18 ------------------------------------------------------------------
\* C18: when addRole created the role and its add_roles then fails, the
\* failure leaves addRole (no result is returned), the call is not made
\* again, and nothing is undone: the guild is as it was, with the new role in
\* it, which has no member unless another add of that name put one in.
NoRetryNoRollback ==
    [][\A p \in Procs :
           /\ ops[p].pc = "failed" => ops'[p].pc = "failed"
           /\ (ops[p].pc = "add_roles" /\ ops[p].created /\ ops'[p].pc = "failed") =>
                  /\ ops'[p].result = "none"
                  /\ guild' = guild
                  /\ ops[p].role \in 1..Len(guild')
                  /\ guild'[ops[p].role].name = ops[p].name
                  /\ (\A q \in Procs \ {p} : ops[q].name # ops[p].name) =>
                         guild'[ops[p].role].members = {}
      ]_vars

\* an addRole failed after its create_role: the role it created has no member
OrphanedRole ==
    \E p \in Procs :
        /\ ops[p].kind = "add"
        /\ ops[p].created
        /\ ops[p].pc = "failed"
        /\ \E i \in 1..Len(guild) : guild[i].name = ops[p].name /\ guild[i].members = {}

\* ---- C20 ------------------------------------------------------------------
\* C20: when a removeRole of one user and an addRole of another user for the
\* same role interleave, the role is deleted only while it has no member: once
\* both have ended, the user whose addRole returned success holds the role.
SuccessfulAddSurvivesRemoval ==
    \A p, q \in Procs :
        (/\ ops[p].kind = "add" /\ ops[p].pc = "done" /\ ops[p].result = "Added"
         /\ ops[q].kind = "remove" /\ ops[q].pc \in {"done", "failed"}
         /\ ops[q].author # ops[p].author
         /\ ops[q].name = ops[p].name)
            => Holds(guild, ops[p].author, ops[p].name)

\* ---- C13 ------------------------------------------------------------------
\* C13: an add (Roles.addRole, or a role picked under action = Add) creates a
\* guild role only when the guild has no role of that name; so, the guild
\* having started without roles, no two guild roles share a name.
AddsCreateOnlyAbsentRoles ==
    /\ \A i, j \in 1..Len(guild) : i # j => guild[i].name # guild[j].name
    /\ \A author \in Users, argument \in CmdArgs : \A pos \in PlacesFor(argument) :
           LET w == Roles_addRole(Start, author, argument, pos)
           IN Len(w.guild) > Len(guild) =>
                  \A i \in 1..Len(guild) : guild[i].name # CanonicalName(argument)
    /\ (view.items = ActionMenuItems /\ view.action = "Add") =>
           \A selection \in Offered \cap Range(whitelist), pos \in Places :
               LET w == RoleMenu_callback(Start, MenuAuthor, selection, pos)
               IN Len(w.guild) > Len(guild) =>
                      \A i \in 1..Len(guild) : guild[i].name # selection

\* ---- C14 ------------------------------------------------------------------
\* C14: picking the "No Options Available" entry, under every action, makes
\* no remote call on roles and leaves the guild as it was.
PlaceholderDoesNothing ==
    (view.items = ActionMenuItems /\ NoOptionsAvailable \in Offered) =>
        \A pos \in Places :
            LET w == RoleMenu_callback(Start, MenuAuthor, NoOptionsAvailable, pos)
            IN RoleCalls(w) = <<>> /\ w.guild = guild

\* ---- C15 ------------------------------------------------------------------
\* the names of the roles the invoker holds that match a whitelist entry
\* ignoring case, in guild order
HeldMatching ==
    LET held == SelectSeq(guild, LAMBDA r :
                    /\ MenuAuthor \in r.members
                    /\ \E k \in 1..Len(whitelist) : Lower(whitelist[k]) = Lower(r.name))
    IN [i \in 1..Len(held) |-> held[i].name]

\* C15: an action button pressed by the invoker puts a RoleMenu in the view
\* whose list is, for Remove, the names of the roles the invoker holds that
\* match a whitelist entry ignoring case, and for every other action the
\* whole whitelist; the menu is at index 0, page 1, and shows the first
\* entries of its list.
MenuOffersCandidates ==
    view.items = MainMenuItems =>
        \A action \in Actions :
            LET w == RolesButton_callback(Start, MenuAuthor, action)
                m == w.view.menu
                expected == IF action = "Remove" THEN HeldMatching ELSE whitelist
                shown == SelectSeq(m.options, LAMBDA o : o.num > 0)
            IN /\ ~w.fault
               /\ w.guild = guild
               /\ w.view.items = ActionMenuItems
               /\ w.view.action = action
               /\ m.index = 0
               /\ m.page = 1
               /\ SameElements(m.whitelist, expected)
               /\ Len(shown) = IF Len(expected) > PageSize THEN PageSize ELSE Len(expected)
               /\ \A j \in 1..Len(shown) : shown[j].value = m.whitelist[j]

\* the invoker, facing the buttons, holds some of the whitelisted roles and
\* not all of them
InvokerHoldsSome ==
    /\ view.items = MainMenuItems
    /\ HeldMatching # <<>>
    /\ Len(HeldMatching) < Len(whitelist)

\* ---- C17 ------------------------------------------------------------------
\* C17: from every state with the selector open (any action, any page), Back
\* pressed by the invoker leaves the view with the six action buttons and no
\* selector, shows the default embed in one message.edit, and makes no remote
\* call on roles: the guild is as it was.
BackLeadsToMainMenu ==
    view.items = ActionMenuItems =>
        LET w == BackButton_callback(Start, MenuAuthor)
        IN /\ ~w.fault
           /\ Len(w.view.items) = 6
           /\ Range(w.view.items) = Actions
           /\ w.view.menu = NoMenu
           /\ Edits(w) = <<Call("edit", "default")>>
           /\ RoleCalls(w) = <<>>
           /\ w.guild = guild

\* the selector is open on its second page
BackFromSecondPage ==
    /\ view.items = ActionMenuItems
    /\ view.menu.page = 2
    /\ view.action \in Actions

\* ---- C16 ------------------------------------------------------------------
\* C16: hasMaxRoles is true exactly when the number of roles the user holds
\* whose names match a whitelist entry ignoring case is at least max.
HasMaxRolesIgnoresCase ==
    out.query = "hasMaxRoles" =>
        LET matching == {i \in 1..Len(guild) :
                            /\ out.author \in guild[i].members
                            /\ \E k \in 1..Len(whitelist) :
                                   Lower(whitelist[k]) = Lower(guild[i].name)}
        IN (out.answer = "True") <=> (Cardinality(matching) >= max)

\* ---- C19 ------------------------------------------------------------------
\* C19: getLeaderboard lists the guild roles that are in the whitelist and
\* have a member, one line a role with its member count, largest count first
\* and equal counts in guild order; when there is no such role it returns
\* the "Nobody has any ... roles yet" message.
LeaderboardListsPopulatedRoles ==
    out.query = "getLeaderboard" =>
        LET listed == SelectSeq(guild, LAMBDA r :
                          r.name \in Range(whitelist) /\ r.members # {})
            entries == [i \in 1..Len(listed) |->
                           [role |-> listed[i].name, count |-> Cardinality(listed[i].members)]]
        IN /\ (out.answer = "NobodyHasRoles") <=> (listed = <<>>)
           /\ out.answer = "NobodyHasRoles" => out.lines = <<>>
           /\ out.answer \in {"NobodyHasRoles", "Leaderboard"}
           /\ Len(out.lines) = Len(entries)
           /\ \A j, k \in 1..Len(out.lines) :
                  j < k => out.lines[j].count >= out.lines[k].count
           /\ \A c \in 1..Cardinality(Users) :
                  SelectSeq(out.lines, LAMBDA e : e.count = c)
                      = SelectSeq(entries, LAMBDA e : e.count = c)

====
